---- MODULE Spec2Model ----
(***************************************************************************)
(* A model of bevy_reactive_font: text entities declare a font collection, *)
(* size, colour and style tags; observers and per-frame systems resolve    *)
(* the rendered handle, size and colour of each text from its collection.  *)
(*                                                                         *)
(* The host ECS is modelled as far as the plugin depends on it:            *)
(*   - an Add observer fires only when the component was absent, a Remove  *)
(*     observer only when the component is taken off (not on replacement); *)
(*   - commands queued by an observer or hook are applied right after the  *)
(*     command that fired it, so a triggered resolution sees the edit;     *)
(*   - a system or observer with a Populated parameter that matches no     *)
(*     entity is skipped without an error;                                 *)
(*   - Changed<T> holds for a system until that system has run;            *)
(*   - commands queued by a system are applied later, in order, and other  *)
(*     commands of the application may be applied before them;             *)
(*   - despawning a collection takes UsingFont off the texts of its UsedBy;*)
(*   - after taking a source off a relationship target the host asks the   *)
(*     source collection is_empty().                                       *)
(*                                                                         *)
(* Spec starts from a text without reference, SpecUsing from a text that   *)
(* uses a collection beside one that does not; SpecVec and SpecVecRef      *)
(* exercise NeverEmptyVec on its own.                                      *)
(***************************************************************************)
EXTENDS Integers, Sequences, FiniteSets, TLC

\* ------------------------------------------------------------------ bounds
\* The number of mutations the application performs in one behaviour.
MaxOps == 2

\* The longest NeverEmptyVec exercised, and the longest run of entities
\* handed to extend_from_iter.
MaxVecLen == 3
MaxExtend == 2

\* ---------------------------------------------------------------- domains
Texts == {"t1", "t2"}
Fonts == {"c1", "c2"}
None == "none"

\* Option<&FontSize>, Option<&FontColor>: absent, or the value carried.
Absent == <<>>
Some(x) == <<x>>
unwrap(o) == o[1]

\* Handle<Font>::default() and the values TextFont / TextColor start with.
NoHandle == 0
NoSize == 0
NoColor == "white"

\* A handle the application loads later and stores into a collection field.
NewHandles == {9}
DefaultSizes == {20, 30}
DefaultColors == {"purple", "green"}
OverrideSizes == {15, 25}
OverrideColors == {"pink", "blue"}

Fields == {"regular", "italic", "bold", "bold_italic"}

\* The entities stored in the NeverEmptyVec exercised on its own, in their
\* order, and the indices handed to its indexed operations (some out of range).
VecEntities == {1, 2, 3}
Indices == 0..(MaxVecLen + 1)
ExtendLists == UNION {[1..n -> VecEntities] : n \in 0..MaxExtend}

VARIABLES
    exists,            \* text entity is spawned
    hasText,           \* text entity carries TextFont / TextColor
    reactive,          \* ReactiveFont
    bold,              \* Bold
    italic,            \* Italic
    fontSize,          \* Some(s) for FontSize(s), else Absent
    fontColor,         \* Some(c) for FontColor(c), else Absent
    usingFont,         \* UsingFont(collection) or None
    textFont,          \* TextFont.font
    textSize,          \* TextFont.font_size
    textColor,         \* TextColor.0
    fexists,           \* collection entity is spawned
    isCollection,      \* entity carries FontCollection
    handles,           \* RegularFont, ItalicFont, BoldFont, BoldItalicFont
    defaultFontSize,   \* DefaultFontSize
    defaultFontColor,  \* DefaultFontColor
    usedBy,            \* UsedBy(NeverEmptyVec)
    defaultFont,       \* Res<DefaultFont> or None
    changed,           \* change detection, one field per system
    queue,             \* triggers queued by the Update systems
    errors,            \* errors handed to the host's error handler
    ran,               \* the observer runs of the latest step
    ops,               \* mutations performed by the application
    vec,               \* a NeverEmptyVec<Entity> exercised on its own
    ref,               \* a plain dynamic array driven by the same operations
    ret,               \* the latest operation on vec and what it returned
    emptyAnswer        \* what is_empty() answered after that operation

fontVars == <<exists, hasText, reactive, bold, italic, fontSize, fontColor,
              usingFont, textFont, textSize, textColor, fexists, isCollection,
              handles, defaultFontSize, defaultFontColor, usedBy, defaultFont,
              changed, queue, errors, ran, ops>>

vecVars == <<vec, ref, ret, emptyAnswer>>

vars == <<fontVars, vecVars>>

\* The world as one value, for the operators that compute a handler's effect.
World ==
    [exists |-> exists, hasText |-> hasText, reactive |-> reactive,
     bold |-> bold, italic |-> italic, fontSize |-> fontSize,
     fontColor |-> fontColor, usingFont |-> usingFont,
     textFont |-> textFont, textSize |-> textSize, textColor |-> textColor,
     fexists |-> fexists, isCollection |-> isCollection, handles |-> handles,
     defaultFontSize |-> defaultFontSize,
     defaultFontColor |-> defaultFontColor, usedBy |-> usedBy,
     defaultFont |-> defaultFont, changed |-> changed]

Commit(w) ==
    /\ exists' = w.exists
    /\ hasText' = w.hasText
    /\ reactive' = w.reactive
    /\ bold' = w.bold
    /\ italic' = w.italic
    /\ fontSize' = w.fontSize
    /\ fontColor' = w.fontColor
    /\ usingFont' = w.usingFont
    /\ textFont' = w.textFont
    /\ textSize' = w.textSize
    /\ textColor' = w.textColor
    /\ fexists' = w.fexists
    /\ isCollection' = w.isCollection
    /\ handles' = w.handles
    /\ defaultFontSize' = w.defaultFontSize
    /\ defaultFontColor' = w.defaultFontColor
    /\ usedBy' = w.usedBy
    /\ defaultFont' = w.defaultFont
    /\ changed' = w.changed

\* ------------------------------------------------------------ NeverEmptyVec
\* add: push at the end, duplicates kept.
add(v, entity) == Append(v, entity)

\* The index of the first element equal to entity, 0 when there is none.
position(v, entity) ==
    IF \E i \in 1..Len(v) : v[i] = entity
    THEN CHOOSE i \in 1..Len(v) :
             /\ v[i] = entity
             /\ \A j \in 1..(i - 1) : v[j] # entity
    ELSE 0

\* A slip: every element equal to the entity removed (Vec::retain).
remove_every_match(v, entity) == SelectSeq(v, LAMBDA x : x # entity)

\* A slip: the match removed by a swap with the last element.
remove_by_swap(v, entity) ==
    LET index == position(v, entity)
    IN IF index = 0 THEN v
       ELSE IF index = Len(v) THEN SubSeq(v, 1, Len(v) - 1)
       ELSE [SubSeq(v, 1, Len(v) - 1) EXCEPT ![index] = v[Len(v)]]

\* remove: delete the first match, later elements shift down.
remove(v, entity) ==
    LET index == position(v, entity)
    IN IF index = 0 THEN v
       ELSE SubSeq(v, 1, index - 1) \o SubSeq(v, index + 1, Len(v))

\* iter: the elements in order.
iter(v) == v

\* new: Vec::new()
new == <<>>

len(v) == Len(v)

clear(v) == <<>>

\* extend_from_iter: Vec::extend, the entities appended in their order.
extend_from_iter(v, entities) == v \o entities

\* A slip: the emptiness of the backing Vec reported.
is_empty_of_vec(v) == Len(v) = 0

\* is_empty: false whatever the Vec holds.
is_empty(v) == FALSE

\* Vec::swap of the elements at two 0-based indices.
swap(v, a, b) == [v EXCEPT ![a + 1] = v[b + 1], ![b + 1] = v[a + 1]]

\* Vec::swap_remove: the last element takes the place of the removed one.
swap_remove(v, index) ==
    IF index = Len(v) - 1 THEN SubSeq(v, 1, Len(v) - 1)
    ELSE [SubSeq(v, 1, Len(v) - 1) EXCEPT ![index + 1] = v[Len(v)]]

\* Vec::insert: the elements from index on shift up.
vec_insert(v, index, entity) ==
    SubSeq(v, 1, index) \o <<entity>> \o SubSeq(v, index + 1, Len(v))

\* Vec::remove: the elements after index shift down.
vec_remove(v, index) == SubSeq(v, 1, index) \o SubSeq(v, index + 2, Len(v))

\* insert: push, then swap the new last element to index. The result of an
\* operation is the Vec it leaves and the value it returns.
insert(v, index, entity) ==
    LET pushed == Append(v, entity)
    IN IF index < len(pushed) THEN swap(pushed, index, len(pushed) - 1)
       ELSE pushed

\* A slip: the order-preserving removal used for the swap variant.
remove_at_keeps_order(v, index) ==
    IF index < len(v) THEN [vec |-> vec_remove(v, index), ret |-> Some(v[index + 1])]
    ELSE [vec |-> v, ret |-> Absent]

remove_at(v, index) ==
    IF index < len(v) THEN [vec |-> swap_remove(v, index), ret |-> Some(v[index + 1])]
    ELSE [vec |-> v, ret |-> Absent]

insert_stable(v, index, entity) ==
    IF index < len(v) THEN vec_insert(v, index, entity) ELSE Append(v, entity)

remove_at_stable(v, index) ==
    IF index < len(v) THEN [vec |-> vec_remove(v, index), ret |-> Some(v[index + 1])]
    ELSE [vec |-> v, ret |-> Absent]

\* sort_unstable: ascending; equal entities are indistinguishable.
RECURSIVE sort(_)
sort(v) ==
    IF v = <<>> THEN <<>>
    ELSE LET least == CHOOSE i \in 1..Len(v) : \A j \in 1..Len(v) : v[i] <= v[j]
         IN <<v[least]>> \o sort(vec_remove(v, least - 1))

\* partition_point(|e| e <= entity): the number of elements the predicate
\* holds for when they all come first; unspecified otherwise.
partition_point(v, entity) ==
    IF \A i, j \in 1..Len(v) : (i < j /\ v[j] <= entity) => v[i] <= entity
    THEN {Cardinality({i \in 1..Len(v) : v[i] <= entity})}
    ELSE 0..Len(v)

\* A slip: the swapping insert used where the order has to be kept.
insert_sorted_by_swap(v, entity) ==
    {insert(v, index, entity) : index \in partition_point(v, entity)}

\* insert_sorted: the Vecs it can leave, one for each index partition_point
\* can return.
insert_sorted(v, entity) ==
    {insert_stable(v, index, entity) : index \in partition_point(v, entity)}

min(a, b) == IF a < b THEN a ELSE b

place_most_recent(v, index) ==
    IF v = <<>> THEN v
    ELSE LET entity == v[Len(v)]
             popped == SubSeq(v, 1, Len(v) - 1)
         IN insert(popped, min(index, len(popped)), entity)

\* A slip: the last element taken out, as place_most_recent does, in place of
\* the one found.
place_drops_last(v, entity, index) ==
    LET current == position(v, entity)
    IN IF current = 0 THEN v
       ELSE insert(SubSeq(v, 1, Len(v) - 1), min(index, len(v)), entity)

place(v, entity, index) ==
    LET current == position(v, entity)
    IN IF current = 0 THEN v
       ELSE insert(vec_remove(v, current - 1), min(index, len(v)), entity)

\* -------------------------------------------------------------- resolution
Outcome(w, kind) == [w |-> w, outcome |-> kind]

\* fonts.get(current_font) succeeds: the entity is alive and carries
\* FontCollection (and with it the components FontCollection requires).
IsFontCollection(w, c) == c \in Fonts /\ w.fexists[c] /\ w.isCollection[c]

\* Populated<(&mut TextFont, ...)> of update_font matches some entity.
ReactiveFontsPopulated(w) == \E e \in Texts : w.exists[e] /\ w.hasText[e]

\* Populated<(&RegularFont, ...), With<FontCollection>> matches some entity.
FontsPopulated(w) == \E c \in Fonts : IsFontCollection(w, c)

\* A slip: the DefaultFont registry consulted before the text's own reference.
current_font_default_first(w, e) ==
    IF w.defaultFont # None THEN w.defaultFont ELSE w.usingFont[e]

\* using_font.map(UsingFont::get).or(default_font.map(|font| font.0))
current_font(w, e) ==
    IF w.usingFont[e] # None THEN w.usingFont[e] ELSE w.defaultFont

\* A slip: the arms of the single tags exchanged.
SelectFont_swapped(h, is_italic, is_bold) ==
    IF is_italic /\ is_bold THEN h.bold_italic
    ELSE IF is_italic THEN h.bold
    ELSE IF is_bold THEN h.italic
    ELSE h.regular

\* match (is_italic, is_bold) { ... }
SelectFont(h, is_italic, is_bold) ==
    IF is_italic /\ is_bold THEN h.bold_italic
    ELSE IF is_italic THEN h.italic
    ELSE IF is_bold THEN h.bold
    ELSE h.regular

\* A slip: TextFont replaced as a whole, which puts the size back to its
\* start value.
update_font_replaces_text_font(w, e) ==
    IF ~ReactiveFontsPopulated(w) \/ ~FontsPopulated(w)
    THEN Outcome(w, "Skipped")
    ELSE IF ~w.exists[e] THEN Outcome(w, "Ok")
    ELSE IF ~w.hasText[e] THEN Outcome(w, "InvalidReactiveFont")
    ELSE IF current_font(w, e) = None THEN Outcome(w, "CannotFindFont")
    ELSE IF ~IsFontCollection(w, current_font(w, e))
    THEN Outcome(w, "InvalidFont")
    ELSE Outcome(
        [w EXCEPT !.textFont[e] =
            SelectFont(w.handles[current_font(w, e)], w.italic[e], w.bold[e]),
                  !.textSize[e] = NoSize],
        "Ok")

\* The observer update_font run for UpdateFont(e).
update_font(w, e) ==
    IF ~ReactiveFontsPopulated(w) \/ ~FontsPopulated(w)
    THEN Outcome(w, "Skipped")
    ELSE IF ~w.exists[e] THEN Outcome(w, "Ok")
    ELSE IF ~w.hasText[e] THEN Outcome(w, "InvalidReactiveFont")
    ELSE IF current_font(w, e) = None THEN Outcome(w, "CannotFindFont")
    ELSE IF ~IsFontCollection(w, current_font(w, e))
    THEN Outcome(w, "InvalidFont")
    ELSE Outcome(
        [w EXCEPT !.textFont[e] =
            SelectFont(w.handles[current_font(w, e)], w.italic[e], w.bold[e])],
        "Ok")

\* A slip: the size added to the one the text shows instead of replacing it.
update_font_size_accumulates(w, e) ==
    IF ~w.exists[e] THEN Outcome(w, "Ok")
    ELSE IF ~w.hasText[e] THEN Outcome(w, "InvalidReactiveFont")
    ELSE IF current_font(w, e) = None THEN Outcome(w, "CannotFindFont")
    ELSE IF ~IsFontCollection(w, current_font(w, e))
    THEN Outcome(w, "InvalidFont")
    ELSE Outcome(
        [w EXCEPT !.textSize[e] =
            @ + (IF w.fontSize[e] # Absent THEN unwrap(w.fontSize[e])
                 ELSE w.defaultFontSize[current_font(w, e)])],
        "Ok")

\* A slip: the collection's default written even when FontSize is present.
update_font_size_default_wins(w, e) ==
    IF ~w.exists[e] THEN Outcome(w, "Ok")
    ELSE IF ~w.hasText[e] THEN Outcome(w, "InvalidReactiveFont")
    ELSE IF w.usingFont[e] = None /\ w.defaultFont = None
    THEN Outcome(w, "CannotFindFont")
    ELSE IF ~IsFontCollection(w, IF w.usingFont[e] # None THEN w.usingFont[e]
                                 ELSE w.defaultFont)
    THEN Outcome(w, "InvalidFont")
    ELSE Outcome(
        [w EXCEPT !.textSize[e] =
            w.defaultFontSize[IF w.usingFont[e] # None THEN w.usingFont[e]
                              ELSE w.defaultFont]],
        "Ok")

\* The observer update_font_size run for UpdateFontSize(e).
update_font_size(w, e) ==
    IF ~w.exists[e] THEN Outcome(w, "Ok")
    ELSE IF ~w.hasText[e] THEN Outcome(w, "InvalidReactiveFont")
    ELSE IF current_font(w, e) = None THEN Outcome(w, "CannotFindFont")
    ELSE IF ~IsFontCollection(w, current_font(w, e))
    THEN Outcome(w, "InvalidFont")
    ELSE Outcome(
        [w EXCEPT !.textSize[e] =
            IF w.fontSize[e] # Absent THEN unwrap(w.fontSize[e])
            ELSE w.defaultFontSize[current_font(w, e)]],
        "Ok")

\* A slip: the colour put back to its start value when no collection is found.
update_font_color_reset_on_error(w, e) ==
    IF ~w.exists[e] THEN Outcome(w, "Ok")
    ELSE IF ~w.hasText[e] THEN Outcome(w, "InvalidReactiveFont")
    ELSE IF current_font(w, e) = None
    THEN Outcome([w EXCEPT !.textColor[e] = NoColor], "CannotFindFont")
    ELSE IF ~IsFontCollection(w, current_font(w, e))
    THEN Outcome([w EXCEPT !.textColor[e] = NoColor], "InvalidFont")
    ELSE Outcome(
        [w EXCEPT !.textColor[e] =
            IF w.fontColor[e] # Absent THEN unwrap(w.fontColor[e])
            ELSE w.defaultFontColor[current_font(w, e)]],
        "Ok")

\* The observer update_font_color run for UpdateFontColor(e).
update_font_color(w, e) ==
    IF ~w.exists[e] THEN Outcome(w, "Ok")
    ELSE IF ~w.hasText[e] THEN Outcome(w, "InvalidReactiveFont")
    ELSE IF current_font(w, e) = None THEN Outcome(w, "CannotFindFont")
    ELSE IF ~IsFontCollection(w, current_font(w, e))
    THEN Outcome(w, "InvalidFont")
    ELSE Outcome(
        [w EXCEPT !.textColor[e] =
            IF w.fontColor[e] # Absent THEN unwrap(w.fontColor[e])
            ELSE w.defaultFontColor[current_font(w, e)]],
        "Ok")

\* The observer registered for the event.
Observe(w, event, e) ==
    IF event = "UpdateFont" THEN update_font(w, e)
    ELSE IF event = "UpdateFontSize" THEN update_font_size(w, e)
    ELSE update_font_color(w, e)

\* A trigger: the event, its target, and the observer or system that raised it.
Trig(event, e, by) == [event |-> event, entity |-> e, by |-> by]

\* Apply the queued triggers in order; collect the runs.
RECURSIVE Flush(_, _, _)
Flush(w, trigs, done) ==
    IF trigs = <<>> THEN [w |-> w, ran |-> done]
    ELSE LET t == Head(trigs)
             r == Observe(w, t.event, t.entity)
         IN Flush(r.w, Tail(trigs),
                  Append(done, [event |-> t.event, entity |-> t.entity,
                                by |-> t.by, outcome |-> r.outcome]))

IsError(kind) == kind \in {"CannotFindFont", "InvalidFont", "InvalidReactiveFont"}

\* The errors the runs hand to the error handler: the kind and the text.
Reported(runs) ==
    {[kind |-> runs[i].outcome, text |-> runs[i].entity] :
        i \in {j \in 1..Len(runs) : IsError(runs[j].outcome)}}

\* ---------------------------------------------- observers of structural edits
on_add_reactive_font(e) ==
    <<Trig("UpdateFont", e, "on_add_reactive_font"),
      Trig("UpdateFontSize", e, "on_add_reactive_font"),
      Trig("UpdateFontColor", e, "on_add_reactive_font")>>

selected_font(e) == <<Trig("UpdateFont", e, "selected_font")>>

deselected_font(e) == <<Trig("UpdateFont", e, "deselected_font")>>

on_add_font_tag(e) == <<Trig("UpdateFont", e, "on_add_font_tag")>>

\* A slip: an observer that triggers nothing.
no_trigger(e) == <<>>

on_remove_font_tag(e) == <<Trig("UpdateFont", e, "on_remove_font_tag")>>

on_add_font_size(e) == <<Trig("UpdateFontSize", e, "on_add_font_size")>>

on_remove_font_size(e) == <<Trig("UpdateFontSize", e, "on_remove_font_size")>>

on_add_font_color(e) == <<Trig("UpdateFontColor", e, "on_add_font_color")>>

on_remove_font_color(e) == <<Trig("UpdateFontColor", e, "on_remove_font_color")>>

\* One mutation of the application: the edited world, then the observers it
\* fired, run to completion before the step ends.
Mutate(w, trigs) ==
    LET r == Flush(w, trigs, <<>>)
    IN /\ ops < MaxOps
       /\ ops' = ops + 1
       /\ Commit(r.w)
       /\ ran' = r.ran
       /\ errors' = errors \cup Reported(r.ran)
       /\ UNCHANGED <<queue, vecVars>>

\* ------------------------------------------------- mutations of a text entity
InsertReactiveFont(e) ==
    /\ exists[e] /\ ~reactive[e]
    /\ Mutate([World EXCEPT !.reactive[e] = TRUE], on_add_reactive_font(e))

RemoveReactiveFont(e) ==
    /\ exists[e] /\ reactive[e]
    /\ Mutate([World EXCEPT !.reactive[e] = FALSE], <<>>)

InsertBold(e) ==
    /\ exists[e] /\ ~bold[e]
    /\ Mutate([World EXCEPT !.bold[e] = TRUE], on_add_font_tag(e))

RemoveBold(e) ==
    /\ exists[e] /\ bold[e]
    /\ Mutate([World EXCEPT !.bold[e] = FALSE], on_remove_font_tag(e))

InsertItalic(e) ==
    /\ exists[e] /\ ~italic[e]
    /\ Mutate([World EXCEPT !.italic[e] = TRUE], on_add_font_tag(e))

RemoveItalic(e) ==
    /\ exists[e] /\ italic[e]
    /\ Mutate([World EXCEPT !.italic[e] = FALSE], on_remove_font_tag(e))

InsertFontSize(e, s) ==
    /\ exists[e] /\ fontSize[e] = Absent
    /\ Mutate([World EXCEPT !.fontSize[e] = Some(s),
                            !.changed.fontSize = @ \cup {e}],
              on_add_font_size(e))

\* The value of a FontSize that is already there is changed.
SetFontSize(e, s) ==
    /\ exists[e] /\ fontSize[e] # Absent /\ fontSize[e] # Some(s)
    /\ Mutate([World EXCEPT !.fontSize[e] = Some(s),
                            !.changed.fontSize = @ \cup {e}],
              <<>>)

RemoveFontSize(e) ==
    /\ exists[e] /\ fontSize[e] # Absent
    /\ Mutate([World EXCEPT !.fontSize[e] = Absent,
                            !.changed.fontSize = @ \ {e}],
              on_remove_font_size(e))

InsertFontColor(e, c) ==
    /\ exists[e] /\ fontColor[e] = Absent
    /\ Mutate([World EXCEPT !.fontColor[e] = Some(c),
                            !.changed.fontColor = @ \cup {e}],
              on_add_font_color(e))

SetFontColor(e, c) ==
    /\ exists[e] /\ fontColor[e] # Absent /\ fontColor[e] # Some(c)
    /\ Mutate([World EXCEPT !.fontColor[e] = Some(c),
                            !.changed.fontColor = @ \cup {e}],
              <<>>)

RemoveFontColor(e) ==
    /\ exists[e] /\ fontColor[e] # Absent
    /\ Mutate([World EXCEPT !.fontColor[e] = Absent,
                            !.changed.fontColor = @ \ {e}],
              on_remove_font_color(e))

\* UsingFont is added to an entity that has none: the relationship hook adds
\* the entity to the target's UsedBy, the Add observer fires.
InsertUsingFont(e, c) ==
    /\ exists[e] /\ usingFont[e] = None /\ fexists[c]
    /\ Mutate([World EXCEPT !.usingFont[e] = c,
                            !.usedBy[c] = add(@, e)],
              selected_font(e))

\* UsingFont is inserted over an existing one: the hooks move the entity from
\* the old target's UsedBy to the new one; neither Add nor Remove fires.
ReplaceUsingFont(e, c) ==
    /\ exists[e] /\ usingFont[e] # None /\ usingFont[e] # c /\ fexists[c]
    /\ Mutate([World EXCEPT !.usingFont[e] = c,
                            !.usedBy[usingFont[e]] = remove(@, e),
                            !.usedBy[c] = add(@, e)],
              <<>>)

RemoveUsingFont(e) ==
    /\ exists[e] /\ usingFont[e] # None
    /\ Mutate([World EXCEPT !.usingFont[e] = None,
                            !.usedBy[usingFont[e]] = remove(@, e)],
              deselected_font(e))

\* The Text components are taken off the entity.
RemoveText(e) ==
    /\ exists[e] /\ hasText[e]
    /\ Mutate([World EXCEPT !.hasText[e] = FALSE], <<>>)

\* The entity is despawned: the Remove observers of the components it carries
\* fire, the entity leaves its target's UsedBy, and the triggers they queued
\* run once it is gone.
DespawnText(e) ==
    /\ exists[e]
    /\ Mutate(
        [World EXCEPT
            !.exists[e] = FALSE, !.hasText[e] = FALSE, !.reactive[e] = FALSE,
            !.bold[e] = FALSE, !.italic[e] = FALSE, !.fontSize[e] = Absent,
            !.fontColor[e] = Absent, !.usingFont[e] = None,
            !.usedBy = [c \in Fonts |->
                            IF usingFont[e] = c THEN remove(usedBy[c], e)
                            ELSE usedBy[c]],
            !.changed.fontSize = @ \ {e}, !.changed.fontColor = @ \ {e}],
        (IF usingFont[e] # None THEN deselected_font(e) ELSE <<>>)
        \o (IF bold[e] THEN on_remove_font_tag(e) ELSE <<>>)
        \o (IF italic[e] THEN on_remove_font_tag(e) ELSE <<>>)
        \o (IF fontSize[e] # Absent THEN on_remove_font_size(e) ELSE <<>>)
        \o (IF fontColor[e] # Absent THEN on_remove_font_color(e) ELSE <<>>))

\* --------------------------------------------------- mutations of a collection
SetHandle(c, f, h) ==
    /\ fexists[c] /\ handles[c][f] # h
    /\ Mutate([World EXCEPT !.handles[c][f] = h,
                            !.changed.handles = @ \cup {c}],
              <<>>)

SetDefaultFontSize(c, s) ==
    /\ fexists[c] /\ defaultFontSize[c] # s
    /\ Mutate([World EXCEPT !.defaultFontSize[c] = s,
                            !.changed.size = @ \cup {c}],
              <<>>)

SetDefaultFontColor(c, col) ==
    /\ fexists[c] /\ defaultFontColor[c] # col
    /\ Mutate([World EXCEPT !.defaultFontColor[c] = col,
                            !.changed.color = @ \cup {c}],
              <<>>)

\* The FontCollection marker is taken off; the required components stay.
RemoveFontCollection(c) ==
    /\ fexists[c] /\ isCollection[c]
    /\ Mutate([World EXCEPT !.isCollection[c] = FALSE], <<>>)

\* The users of a collection in the order of its UsedBy.
RECURSIVE TrigEach(_, _, _)
TrigEach(event, es, by) ==
    IF es = <<>> THEN <<>>
    ELSE <<Trig(event, Head(es), by)>> \o TrigEach(event, Tail(es), by)

\* The collection entity is despawned: the relationship takes UsingFont off
\* every entity of its UsedBy, which fires deselected_font for each.
DespawnFont(c) ==
    /\ fexists[c]
    /\ Mutate(
        [World EXCEPT
            !.fexists[c] = FALSE, !.isCollection[c] = FALSE,
            !.usedBy[c] = <<>>,
            !.usingFont = [e \in Texts |->
                              IF usingFont[e] = c THEN None ELSE usingFont[e]],
            !.changed.handles = @ \ {c}, !.changed.size = @ \ {c},
            !.changed.color = @ \ {c}],
        TrigEach("UpdateFont", iter(usedBy[c]), "deselected_font"))

\* ------------------------------------------------------------- DefaultFont
InsertDefaultFont(c) ==
    /\ defaultFont # c
    /\ Mutate([World EXCEPT !.defaultFont = c, !.changed.defaultFont = TRUE],
              <<>>)

RemoveDefaultFont ==
    /\ defaultFont # None
    /\ Mutate([World EXCEPT !.defaultFont = None,
                            !.changed.defaultFont = FALSE],
              <<>>)

\* ------------------------------------------------------ the Update systems
\* A set of text entities in the order a query iterates them.
InOrder(S) ==
    (IF "t1" \in S THEN <<"t1">> ELSE <<>>) \o (IF "t2" \in S THEN <<"t2">> ELSE <<>>)

FontsInOrder(S) ==
    (IF "c1" \in S THEN <<"c1">> ELSE <<>>) \o (IF "c2" \in S THEN <<"c2">> ELSE <<>>)

\* Query<Entity, (With<ReactiveFont>, Without<UsingFont>)>
WithoutUsingFont == {e \in Texts : exists[e] /\ reactive[e] /\ usingFont[e] = None}

\* font_handles.iter().flat_map(|used_by| used_by.iter())
RECURSIVE FlatUsedBy(_)
FlatUsedBy(cs) ==
    IF cs = <<>> THEN <<>> ELSE iter(usedBy[Head(cs)]) \o FlatUsedBy(Tail(cs))

\* A system queues its triggers; they run later, see Resolve.
Queue(trigs) ==
    /\ queue' = queue \o trigs
    /\ ran' = <<>>
    /\ UNCHANGED <<exists, hasText, reactive, bold, italic, fontSize,
                   fontColor, usingFont, textFont, textSize, textColor,
                   fexists, isCollection, handles, defaultFontSize,
                   defaultFontColor, usedBy, defaultFont, errors, ops,
                   vecVars>>

\* A slip: the texts that fall back on DefaultFont left out.
Audience_used_by_only(event, set, by) ==
    TrigEach(event, FlatUsedBy(FontsInOrder(set)), by)

\* The triggers of a collection-changed system for the collections in set.
Audience(event, set, by) ==
    (IF defaultFont # None /\ defaultFont \in set
     THEN TrigEach(event, InOrder(WithoutUsingFont), by) ELSE <<>>)
    \o TrigEach(event, FlatUsedBy(FontsInOrder(set)), by)

default_font_changed ==
    /\ changed.defaultFont /\ defaultFont # None
    /\ changed' = [changed EXCEPT !.defaultFont = FALSE]
    /\ Queue(TrigEach("UpdateFont", InOrder(WithoutUsingFont),
                      "default_font_changed"))

font_handle_changed ==
    /\ changed.handles # {}
    /\ changed' = [changed EXCEPT !.handles = {}]
    /\ Queue(Audience("UpdateFont", changed.handles, "font_handle_changed"))

\* A slip: the handle resolution triggered for a change of the default size.
default_font_size_changed_as_handle ==
    /\ changed.size # {}
    /\ changed' = [changed EXCEPT !.size = {}]
    /\ Queue(Audience("UpdateFont", changed.size,
                      "default_font_size_changed"))

default_font_size_changed ==
    /\ changed.size # {}
    /\ changed' = [changed EXCEPT !.size = {}]
    /\ Queue(Audience("UpdateFontSize", changed.size,
                      "default_font_size_changed"))

default_font_color_changed ==
    /\ changed.color # {}
    /\ changed' = [changed EXCEPT !.color = {}]
    /\ Queue(Audience("UpdateFontColor", changed.color,
                      "default_font_color_changed"))

\* A slip: the colour resolution triggered for a changed FontSize.
changed_font_size_as_color ==
    /\ \E e \in changed.fontSize : reactive[e]
    /\ changed' = [changed EXCEPT !.fontSize = {}]
    /\ Queue(TrigEach("UpdateFontColor",
                      InOrder({e \in changed.fontSize : reactive[e]}),
                      "changed_font_size"))

changed_font_size ==
    /\ \E e \in changed.fontSize : reactive[e]
    /\ changed' = [changed EXCEPT !.fontSize = {}]
    /\ Queue(TrigEach("UpdateFontSize",
                      InOrder({e \in changed.fontSize : reactive[e]}),
                      "changed_font_size"))

changed_font_color ==
    /\ \E e \in changed.fontColor : reactive[e]
    /\ changed' = [changed EXCEPT !.fontColor = {}]
    /\ Queue(TrigEach("UpdateFontColor",
                      InOrder({e \in changed.fontColor : reactive[e]}),
                      "changed_font_color"))

\* The next queued trigger is applied: its observer runs.
Resolve ==
    /\ queue # <<>>
    /\ LET r == Flush(World, <<Head(queue)>>, <<>>)
       IN /\ Commit(r.w)
          /\ ran' = r.ran
          /\ errors' = errors \cup Reported(r.ran)
    /\ queue' = Tail(queue)
    /\ UNCHANGED <<ops, vecVars>>

\* ------------------------------------------------------------------- start
\* The world a Startup system like that of examples/basic.rs leaves: the
\* collection c1, and c2 when spawnC2, spawned with their handles, sizes and
\* colours; DefaultFont set to c1 or not set; the text t1 spawned with
\* (ReactiveFont, Text), and t2 with Text alone when spawnT2.
Startup(df, spawnC2, spawnT2) ==
    [exists |-> [e \in Texts |-> e = "t1" \/ spawnT2],
     hasText |-> [e \in Texts |-> e = "t1" \/ spawnT2],
     reactive |-> [e \in Texts |-> e = "t1"],
     bold |-> [e \in Texts |-> FALSE],
     italic |-> [e \in Texts |-> FALSE],
     fontSize |-> [e \in Texts |-> Absent],
     fontColor |-> [e \in Texts |-> Absent],
     usingFont |-> [e \in Texts |-> None],
     textFont |-> [e \in Texts |-> NoHandle],
     textSize |-> [e \in Texts |-> NoSize],
     textColor |-> [e \in Texts |-> NoColor],
     fexists |-> [c \in Fonts |-> c = "c1" \/ spawnC2],
     isCollection |-> [c \in Fonts |-> c = "c1" \/ spawnC2],
     handles |-> [c \in Fonts |->
                    IF c = "c1"
                    THEN [regular |-> 1, italic |-> 2, bold |-> 3, bold_italic |-> 4]
                    ELSE [regular |-> 5, italic |-> 6, bold |-> 7, bold_italic |-> 8]],
     defaultFontSize |-> [c \in Fonts |-> IF c = "c1" THEN 20 ELSE 30],
     defaultFontColor |-> [c \in Fonts |-> IF c = "c1" THEN "purple" ELSE "green"],
     usedBy |-> [c \in Fonts |-> <<>>],
     defaultFont |-> df,
     changed |-> [defaultFont |-> FALSE, handles |-> {}, size |-> {},
                  color |-> {}, fontSize |-> {}, fontColor |-> {}]]

Holds(w) ==
    /\ exists = w.exists
    /\ hasText = w.hasText
    /\ reactive = w.reactive
    /\ bold = w.bold
    /\ italic = w.italic
    /\ fontSize = w.fontSize
    /\ fontColor = w.fontColor
    /\ usingFont = w.usingFont
    /\ textFont = w.textFont
    /\ textSize = w.textSize
    /\ textColor = w.textColor
    /\ fexists = w.fexists
    /\ isCollection = w.isCollection
    /\ handles = w.handles
    /\ defaultFontSize = w.defaultFontSize
    /\ defaultFontColor = w.defaultFontColor
    /\ usedBy = w.usedBy
    /\ defaultFont = w.defaultFont
    /\ changed = w.changed

\* UsedBy::default(): a new NeverEmptyVec, and the plain array beside it.
VecNew ==
    /\ vec = new
    /\ ref = <<>>
    /\ ret = [op |-> "new", value |-> Absent]
    /\ emptyAnswer = is_empty(new)

\* The state once the spawn of t1 has fired on_add_reactive_font and every
\* Update system has run.
Init ==
    \E df \in {None, "c1"}, spawnC2 \in BOOLEAN, spawnT2 \in BOOLEAN :
        LET r == Flush(Startup(df, spawnC2, spawnT2),
                       on_add_reactive_font("t1"), <<>>)
        IN /\ Holds(r.w)
           /\ queue = <<>>
           /\ errors = Reported(r.ran)
           /\ ran = r.ran
           /\ ops = 0
           /\ VecNew

Next ==
    \/ \E e \in Texts : InsertReactiveFont(e)
    \/ \E e \in Texts : RemoveReactiveFont(e)
    \/ \E e \in Texts : InsertBold(e)
    \/ \E e \in Texts : RemoveBold(e)
    \/ \E e \in Texts : InsertItalic(e)
    \/ \E e \in Texts : RemoveItalic(e)
    \/ \E e \in Texts, s \in OverrideSizes : InsertFontSize(e, s)
    \/ \E e \in Texts, s \in OverrideSizes : SetFontSize(e, s)
    \/ \E e \in Texts : RemoveFontSize(e)
    \/ \E e \in Texts, c \in OverrideColors : InsertFontColor(e, c)
    \/ \E e \in Texts, c \in OverrideColors : SetFontColor(e, c)
    \/ \E e \in Texts : RemoveFontColor(e)
    \/ \E e \in Texts, c \in Fonts : InsertUsingFont(e, c)
    \/ \E e \in Texts, c \in Fonts : ReplaceUsingFont(e, c)
    \/ \E e \in Texts : RemoveUsingFont(e)
    \/ \E e \in Texts : RemoveText(e)
    \/ \E e \in Texts : DespawnText(e)
    \/ \E c \in Fonts, f \in Fields, h \in NewHandles : SetHandle(c, f, h)
    \/ \E c \in Fonts, s \in DefaultSizes : SetDefaultFontSize(c, s)
    \/ \E c \in Fonts, col \in DefaultColors : SetDefaultFontColor(c, col)
    \/ \E c \in Fonts : RemoveFontCollection(c)
    \/ \E c \in Fonts : DespawnFont(c)
    \/ \E c \in Fonts : InsertDefaultFont(c)
    \/ RemoveDefaultFont
    \/ default_font_changed
    \/ font_handle_changed
    \/ default_font_size_changed
    \/ default_font_color_changed
    \/ changed_font_size
    \/ changed_font_color
    \/ Resolve

Spec == Init /\ [][Next]_vars

\* ------------------------------------------- a start with a referencing text
\* The world a Startup system like spawn_text of examples/basic.rs leaves:
\* both collections spawned; t1 spawned with (ReactiveFont, Text), with Bold
\* and Italic when styled, and made to use c1; t2 spawned with
\* (ReactiveFont, Text) alone.
StartupUsing(df, styled) ==
    [Startup(df, TRUE, TRUE) EXCEPT
        !.reactive = [e \in Texts |-> TRUE],
        !.bold = [e \in Texts |-> e = "t1" /\ styled],
        !.italic = [e \in Texts |-> e = "t1" /\ styled],
        !.usingFont = [e \in Texts |-> IF e = "t1" THEN "c1" ELSE None],
        !.usedBy = [c \in Fonts |-> IF c = "c1" THEN add(<<>>, "t1") ELSE <<>>]]

\* The observers the spawns fire, run to completion.
InitUsing ==
    \E df \in {None, "c1"}, styled \in BOOLEAN :
        LET r == Flush(StartupUsing(df, styled),
                       on_add_reactive_font("t1")
                       \o (IF styled
                           THEN on_add_font_tag("t1") \o on_add_font_tag("t1")
                           ELSE <<>>)
                       \o selected_font("t1")
                       \o on_add_reactive_font("t2"),
                       <<>>)
        IN /\ Holds(r.w)
           /\ queue = <<>>
           /\ errors = Reported(r.ran)
           /\ ran = r.ran
           /\ ops = 0
           /\ VecNew

SpecUsing == InitUsing /\ [][Next]_vars

\* ------------------------------------------- NeverEmptyVec exercised alone
\* A plain dynamic array: append, delete the first match, append all.
RefAppend(a, x) == [i \in 1..(Len(a) + 1) |-> IF i <= Len(a) THEN a[i] ELSE x]

RECURSIVE RefDeleteFirst(_, _)
RefDeleteFirst(a, x) ==
    IF a = <<>> THEN <<>>
    ELSE IF Head(a) = x THEN Tail(a)
    ELSE <<Head(a)>> \o RefDeleteFirst(Tail(a), x)

RECURSIVE RefExtend(_, _)
RefExtend(a, xs) ==
    IF xs = <<>> THEN a ELSE RefExtend(RefAppend(a, Head(xs)), Tail(xs))

\* One operation on vec: the Vec it leaves, what it returned, and the answer
\* the relationship hooks get from is_empty() afterwards. r is what the same
\* operation leaves of the plain array.
VecStep(v, r, op, value) ==
    /\ vec' = v
    /\ ref' = r
    /\ ret' = [op |-> op, value |-> value]
    /\ emptyAnswer' = is_empty(v)
    /\ UNCHANGED fontVars

VecAdd(e) ==
    /\ len(vec) < MaxVecLen
    /\ VecStep(add(vec, e), RefAppend(ref, e), "add", Some(TRUE))

VecRemove(e) ==
    VecStep(remove(vec, e), RefDeleteFirst(ref, e), "remove",
            Some(position(vec, e) # 0))

VecClear == VecStep(clear(vec), <<>>, "clear", Absent)

VecExtend(es) ==
    /\ len(vec) + Len(es) <= MaxVecLen
    /\ VecStep(extend_from_iter(vec, es), RefExtend(ref, es), "extend", Absent)

\* The indexed operations; the plain array is specified for the four
\* operations above only and restarts from the contents they leave.
VecInsert(i, e) ==
    /\ len(vec) < MaxVecLen
    /\ VecStep(insert(vec, i, e), iter(insert(vec, i, e)), "insert", Absent)

VecRemoveAt(i) ==
    LET r == remove_at(vec, i)
    IN VecStep(r.vec, iter(r.vec), "remove_at", r.ret)

VecInsertStable(i, e) ==
    /\ len(vec) < MaxVecLen
    /\ VecStep(insert_stable(vec, i, e), iter(insert_stable(vec, i, e)),
               "insert_stable", Absent)

VecRemoveAtStable(i) ==
    LET r == remove_at_stable(vec, i)
    IN VecStep(r.vec, iter(r.vec), "remove_at_stable", r.ret)

VecSort == VecStep(sort(vec), iter(sort(vec)), "sort", Absent)

VecInsertSorted(e) ==
    /\ len(vec) < MaxVecLen
    /\ \E v \in insert_sorted(vec, e) : VecStep(v, iter(v), "insert_sorted", Absent)

VecPlaceMostRecent(i) ==
    VecStep(place_most_recent(vec, i), iter(place_most_recent(vec, i)),
            "place_most_recent", Absent)

VecPlace(e, i) ==
    VecStep(place(vec, e, i), iter(place(vec, e, i)), "place", Absent)

\* No font entity is touched while the NeverEmptyVec is exercised.
InitVec ==
    /\ Holds(Startup(None, FALSE, FALSE))
    /\ queue = <<>>
    /\ errors = {}
    /\ ran = <<>>
    /\ ops = 0
    /\ VecNew

NextVec ==
    \/ \E e \in VecEntities : VecAdd(e)
    \/ \E e \in VecEntities : VecRemove(e)
    \/ VecClear
    \/ \E es \in ExtendLists : VecExtend(es)
    \/ \E i \in Indices, e \in VecEntities : VecInsert(i, e)
    \/ \E i \in Indices : VecRemoveAt(i)
    \/ \E i \in Indices, e \in VecEntities : VecInsertStable(i, e)
    \/ \E i \in Indices : VecRemoveAtStable(i)
    \/ VecSort
    \/ \E e \in VecEntities : VecInsertSorted(e)
    \/ \E i \in Indices : VecPlaceMostRecent(i)
    \/ \E e \in VecEntities, i \in Indices : VecPlace(e, i)

SpecVec == InitVec /\ [][NextVec]_vars

\* The operations a plain dynamic array is the reference for.
NextVecRef ==
    \/ \E e \in VecEntities : VecAdd(e)
    \/ \E e \in VecEntities : VecRemove(e)
    \/ VecClear
    \/ \E es \in ExtendLists : VecExtend(es)

SpecVecRef == InitVec /\ [][NextVecRef]_vars

\* ================================================================= claims
\* What the cascade prescribes, stated apart from the operators of the model.
Effective(w, e) ==
    IF w.usingFont[e] # None THEN w.usingFont[e] ELSE w.defaultFont

ValidCollection(w, c) == c \in Fonts /\ w.fexists[c] /\ w.isCollection[c]

ExpectedHandle(w, e) ==
    LET h == w.handles[Effective(w, e)]
    IN CASE ~w.bold[e] /\ ~w.italic[e] -> h.regular
         [] ~w.bold[e] /\ w.italic[e] -> h.italic
         [] w.bold[e] /\ ~w.italic[e] -> h.bold
         [] w.bold[e] /\ w.italic[e] -> h.bold_italic

ExpectedSize(w, e) ==
    IF w.fontSize[e] # Absent THEN w.fontSize[e][1]
    ELSE w.defaultFontSize[Effective(w, e)]

ExpectedColor(w, e) ==
    IF w.fontColor[e] # Absent THEN w.fontColor[e][1]
    ELSE w.defaultFontColor[Effective(w, e)]

\* A text the engine styles, whose effective collection can be read.
Resolvable(w, e) ==
    /\ w.exists[e] /\ w.hasText[e]
    /\ ValidCollection(w, Effective(w, e))

\* The cycle is over: no trigger is queued and no Update system has a change
\* left to react to.
Quiescent ==
    /\ queue = <<>>
    /\ ~changed.defaultFont
    /\ changed.handles = {} /\ changed.size = {} /\ changed.color = {}
    /\ \A e \in changed.fontSize \cup changed.fontColor : ~reactive[e]

\* The runs r hold one of the observer of event for e, with this outcome.
RanIn(r, event, e, outcome) ==
    \E i \in DOMAIN r :
        r[i].event = event /\ r[i].entity = e /\ r[i].outcome = outcome

\* The latest step ran the observer of event for e, with this outcome.
Ran(event, e, outcome) == RanIn(ran, event, e, outcome)

\* C1: once a cycle is over and no resolution has reported an error, the
\* handle, size and colour of every ReactiveFont text equal the cascade result
\* of the current inputs.
C1_CascadeAtRest ==
    (Quiescent /\ errors = {}) =>
        \A e \in Texts :
            (reactive[e] /\ Resolvable(World, e)) =>
                /\ textFont[e] = ExpectedHandle(World, e)
                /\ textSize[e] = ExpectedSize(World, e)
                /\ textColor[e] = ExpectedColor(World, e)

\* C2: DefaultFont is replaced from c1 by c2 (the only mutation since the
\* start); once the cycle is over every ReactiveFont text without UsingFont
\* has the handle of c2 and, without overrides, the size and colour of c2.
C2_DefaultFontReplaced ==
    (ops = 1 /\ defaultFont = "c2" /\ Quiescent /\ errors = {}) =>
        \A e \in Texts :
            (reactive[e] /\ usingFont[e] = None /\ Resolvable(World, e)) =>
                /\ textFont[e] = ExpectedHandle(World, e)
                /\ fontSize[e] = Absent => textSize[e] = defaultFontSize["c2"]
                /\ fontColor[e] = Absent => textColor[e] = defaultFontColor["c2"]

\* C3: a step that adds or removes the UsingFont of a text without overrides
\* leaves its size and colour equal to the defaults of its new effective
\* collection.
C3_ReferenceEditResolvesSizeAndColor ==
    [][\A e \in Texts :
        ((\E c \in Fonts : InsertUsingFont(e, c)) \/ RemoveUsingFont(e)) =>
            (Resolvable(World', e) =>
                /\ fontSize'[e] = Absent =>
                       textSize'[e] = defaultFontSize'[Effective(World', e)]
                /\ fontColor'[e] = Absent =>
                       textColor'[e] = defaultFontColor'[Effective(World', e)])
      ]_vars

\* C4: a step that adds, removes or replaces the UsingFont of a text T leaves
\* T's handle equal to the style-selected handle of its new effective
\* collection, and changes no resolved attribute of any other text.
C4_ReferenceEditResolvesHandle ==
    [][\A e \in Texts :
        (\/ \E c \in Fonts : InsertUsingFont(e, c)
         \/ \E c \in Fonts : ReplaceUsingFont(e, c)
         \/ RemoveUsingFont(e)) =>
            /\ Resolvable(World', e) =>
                   textFont'[e] = ExpectedHandle(World', e)
            /\ \A o \in Texts \ {e} :
                   /\ textFont'[o] = textFont[o]
                   /\ textSize'[o] = textSize[o]
                   /\ textColor'[o] = textColor[o]
      ]_vars

\* At rest, a ReactiveFont text that carries FontSize(s) and none of whose
\* resolutions failed shows the size s.
C5_AtRest ==
    \A e \in Texts :
        (/\ Quiescent /\ exists[e] /\ hasText[e] /\ reactive[e]
         /\ fontSize[e] # Absent
         /\ \A x \in errors : x.text # e)
        => textSize[e] = fontSize[e][1]

\* C5: a text that carries FontSize(s) shows the size s whatever the default
\* size of its collection: every size resolution of it writes s, at rest its
\* size is s, and as long as FontSize(s) is kept no step (a change of
\* DefaultFontSize and the resolution it schedules included) moves the size
\* away from s.
C5_OverrideSizeWins ==
    /\ []C5_AtRest
    /\ [][\A e \in Texts :
            (exists'[e] /\ fontSize'[e] # Absent) =>
                /\ RanIn(ran', "UpdateFontSize", e, "Ok") =>
                       textSize'[e] = fontSize'[e][1]
                /\ (fontSize[e] = fontSize'[e] /\ textSize[e] = fontSize[e][1]) =>
                       textSize'[e] = textSize[e]
         ]_vars

\* The default size of the collection of an overriding text was changed, the
\* size resolution this scheduled has just run, and the size is the override.
C5_Witness ==
    \E e \in Texts :
        /\ Resolvable(World, e) /\ fontSize[e] # Absent
        /\ ran = <<[event |-> "UpdateFontSize", entity |-> e,
                     by |-> "default_font_size_changed", outcome |-> "Ok"]>>
        /\ defaultFontSize[Effective(World, e)]
               # Startup(None, TRUE, TRUE).defaultFontSize[Effective(World, e)]
        /\ textSize[e] = fontSize[e][1]
        /\ textSize[e] # defaultFontSize[Effective(World, e)]

\* C6: a size (colour) resolution of a text without FontSize (FontColor)
\* leaves the default size (colour) of its effective collection: the target of
\* UsingFont when there is one, else the DefaultFont collection.
C6_DefaultWhenNoOverride ==
    \A e \in Texts :
        exists[e] =>
            /\ (Ran("UpdateFontSize", e, "Ok") /\ fontSize[e] = Absent) =>
                   textSize[e] = defaultFontSize[Effective(World, e)]
            /\ (Ran("UpdateFontColor", e, "Ok") /\ fontColor[e] = Absent) =>
                   textColor[e] = defaultFontColor[Effective(World, e)]

\* A text without overrides whose reference and DefaultFont name collections
\* of different defaults has just been resolved to those of its reference.
C6_Witness ==
    \E e \in Texts :
        /\ exists[e] /\ fontSize[e] = Absent /\ fontColor[e] = Absent
        /\ Ran("UpdateFontSize", e, "Ok") /\ Ran("UpdateFontColor", e, "Ok")
        /\ usingFont[e] # None /\ defaultFont # None
        /\ defaultFontSize[usingFont[e]] # defaultFontSize[defaultFont]
        /\ defaultFontColor[usingFont[e]] # defaultFontColor[defaultFont]
        /\ textSize[e] = defaultFontSize[usingFont[e]]
        /\ textColor[e] = defaultFontColor[usingFont[e]]

\* C7: a handle resolution leaves the field of the effective collection that
\* the (bold, italic) pair selects: regular, italic, bold or bold-italic.
C7_HandleByStyle ==
    \A e \in Texts :
        (exists[e] /\ Ran("UpdateFont", e, "Ok")) =>
            textFont[e] = ExpectedHandle(World, e)

\* An italic, not bold text has just been resolved to the italic handle of a
\* collection whose four handles differ.
C7_Witness ==
    \E e \in Texts :
        /\ exists[e] /\ Ran("UpdateFont", e, "Ok")
        /\ italic[e] /\ ~bold[e]
        /\ textFont[e] = handles[Effective(World, e)].italic
        /\ Cardinality({handles[Effective(World, e)][f] : f \in Fields}) = 4

\* C8: the resolution of any attribute of a text without UsingFont, while no
\* DefaultFont is set, reports CannotFindFont for that text.
C8_CannotFindFont ==
    \A i \in DOMAIN ran :
        LET e == ran[i].entity
        IN (exists[e] /\ hasText[e] /\ usingFont[e] = None /\ defaultFont = None)
           => /\ ran[i].outcome = "CannotFindFont"
              /\ [kind |-> "CannotFindFont", text |-> e] \in errors

\* C9: a resolution whose chosen collection entity does not carry
\* FontCollection reports InvalidFont for the text.
C9_InvalidFont ==
    \A i \in DOMAIN ran :
        LET e == ran[i].entity
        IN (/\ exists[e] /\ hasText[e]
            /\ Effective(World, e) # None
            /\ ~ValidCollection(World, Effective(World, e)))
           => /\ ran[i].outcome = "InvalidFont"
              /\ [kind |-> "InvalidFont", text |-> e] \in errors

\* C10: a resolution of a despawned text reports nothing; a resolution of an
\* entity that exists without the text components reports
\* InvalidReactiveFont for it.
C10_DespawnedOrNoText ==
    \A i \in DOMAIN ran :
        LET e == ran[i].entity
        IN /\ ~exists[e] => ~IsError(ran[i].outcome)
           /\ (exists[e] /\ ~hasText[e]) =>
                  /\ ran[i].outcome = "InvalidReactiveFont"
                  /\ [kind |-> "InvalidReactiveFont", text |-> e] \in errors

\* C11: when a collection C is despawned while the next pending resolution is
\* one for a text T that references C, that resolution, run on the world the
\* despawn leaves, reports no error.
C11_CollectionDespawnRace ==
    [][\A c \in Fonts, e \in Texts :
        (/\ DespawnFont(c)
         /\ usingFont[e] = c
         /\ queue # <<>> /\ Head(queue).entity = e)
        => ~IsError(Observe(World', Head(queue).event, e).outcome)
      ]_vars

\* C12: a step in which a resolution of a text fails (CannotFindFont,
\* InvalidFont or InvalidReactiveFont) leaves the handle, size and colour of
\* that text as they were before the step.
C12_FailureKeepsValues ==
    [][\A e \in Texts :
        (\E i \in DOMAIN ran' :
            ran'[i].entity = e /\ IsError(ran'[i].outcome))
        => /\ textFont'[e] = textFont[e]
           /\ textSize'[e] = textSize[e]
           /\ textColor'[e] = textColor[e]
      ]_vars

\* A text resolved earlier to purple and to a default size has just had its
\* resolutions fail: it still shows them, although it now carries overrides
\* or its collection is gone.
C12_Witness ==
    \E e \in Texts :
        /\ exists[e] /\ hasText[e]
        /\ \E i \in DOMAIN ran :
               /\ ran[i].entity = e /\ ran[i].event = "UpdateFontColor"
               /\ IsError(ran[i].outcome)
        /\ fontColor[e] # Absent
        /\ textColor[e] \in DefaultColors
        /\ textSize[e] \in DefaultSizes

\* C13: no step writes the handle, size or colour of a text that does not
\* carry ReactiveFont, before and after the step.
C13_UntaggedIgnored ==
    [][\A e \in Texts :
        (exists[e] /\ ~reactive[e] /\ ~reactive'[e])
        => /\ textFont'[e] = textFont[e]
           /\ textSize'[e] = textSize[e]
           /\ textColor'[e] = textColor[e]
      ]_vars

\* C14: after every operation on a NeverEmptyVec (new, add, remove, clear,
\* extend, the indexed inserts and removes, sort, insert_sorted, place,
\* place_most_recent) is_empty() answers false, also when len() is 0.
C14_NeverEmpty == emptyAnswer = FALSE /\ is_empty(vec) = FALSE

\* The last element has just been removed: len() is 0 and is_empty() is false.
C14_Witness ==
    /\ \/ ret.op = "remove" /\ ret.value = Some(TRUE)
       \/ ret.op \in {"remove_at", "remove_at_stable"} /\ ret.value # Absent
    /\ len(vec) = 0
    /\ emptyAnswer = FALSE

\* C15: after every sequence of add, remove, clear and extend_from_iter, len()
\* and the iteration order of the NeverEmptyVec are those of the plain array
\* driven by the same operations.
C15_RefinesPlainArray ==
    /\ len(vec) = Len(ref)
    /\ \A i \in 1..Len(ref) : iter(vec)[i] = ref[i]

\* A removal has just deleted an entity from three, and the two left are in
\* the order of the plain array.
C15_Witness ==
    /\ ret.op = "remove" /\ ret.value = Some(TRUE)
    /\ len(vec) = 2 /\ Len(ref) = 2
    /\ ref[1] # ref[2]
    /\ iter(vec) = ref

\* The next pending resolution is one the latest step has already run, with
\* success, for the same text: no input has changed since.
Repeated ==
    /\ queue # <<>>
    /\ \E i \in DOMAIN ran :
           /\ ran[i].event = Head(queue).event
           /\ ran[i].entity = Head(queue).entity
           /\ ran[i].outcome = "Ok"

\* C16: a resolution run again for the same text with unchanged inputs (the
\* same request queued twice in one cycle, or queued by a system and raised
\* by an observer) leaves every resolved attribute as the first run left it.
C16_Idempotent ==
    [][(Repeated /\ Resolve) =>
           /\ textFont' = textFont
           /\ textSize' = textSize
           /\ textColor' = textColor
           /\ ran'[1].outcome = "Ok"
      ]_vars

\* One resolution of one text was requested from two sources (two systems, or
\* a system and an observer); the first request has just run and the text
\* shows a value it did not start with, the second is next, and running it
\* leaves the attributes as they are.
C16_Witness ==
    /\ Repeated
    /\ Len(ran) = 1
    /\ ran[1].by # Head(queue).by
    /\ exists[ran[1].entity] /\ hasText[ran[1].entity]
    /\ \/ textFont[ran[1].entity] # Startup(None, TRUE, TRUE).handles["c1"].regular
       \/ textSize[ran[1].entity] # Startup(None, TRUE, TRUE).defaultFontSize["c1"]
    /\ ENABLED (Resolve /\ textFont' = textFont /\ textSize' = textSize
                        /\ textColor' = textColor)

\* The triggers a step appends to the queue.
Scheduled == SubSeq(queue', Len(queue) + 1, Len(queue'))

\* The texts of the UsedBy of collection c.
Users(c) == {usedBy[c][i] : i \in DOMAIN usedBy[c]}

\* The ReactiveFont texts without a UsingFont reference.
Implicit == {e \in Texts : exists[e] /\ reactive[e] /\ usingFont[e] = None}

\* What a collection-changed system must schedule for the collections cs:
\* event, and nothing else, for every text of their UsedBy and, when
\* DefaultFont is one of them, for every text that falls back on it; for no
\* other text.
SchedulesFor(event, cs) ==
    /\ \A i \in DOMAIN Scheduled : Scheduled[i].event = event
    /\ \A c \in cs : \A e \in Users(c) :
           \E i \in DOMAIN Scheduled : Scheduled[i].entity = e
    /\ (defaultFont # None /\ defaultFont \in cs) =>
           \A e \in Implicit : \E i \in DOMAIN Scheduled : Scheduled[i].entity = e
    /\ \A i \in DOMAIN Scheduled :
           \/ \E c \in cs : Scheduled[i].entity \in Users(c)
           \/ /\ defaultFont # None /\ defaultFont \in cs
              /\ Scheduled[i].entity \in Implicit

\* C17: a change of any handle field of a collection marks it for
\* font_handle_changed, and when that system runs it schedules UpdateFont for
\* every text of the UsedBy of each changed collection and, if DefaultFont is
\* among them, for every ReactiveFont text without UsingFont, and for no
\* other text.
C17_HandleChangeAudience ==
    [][/\ \A c \in Fonts :
            (\E f \in Fields, h \in NewHandles : SetHandle(c, f, h))
            => c \in changed'.handles
       /\ font_handle_changed => SchedulesFor("UpdateFont", changed.handles)
      ]_vars

\* font_handle_changed has just scheduled both audiences of a changed
\* collection c: a text that uses c, and a ReactiveFont text without
\* reference while DefaultFont is c; the texts of no other kind.
C17_Witness ==
    \E c \in Fonts, e1, e2 \in Texts :
        /\ changed.handles = {} /\ ran = <<>>
        /\ \E f \in Fields : handles[c][f] \in NewHandles
        /\ defaultFont = c
        /\ usingFont[e1] = c /\ e1 \in Users(c)
        /\ e2 \in Implicit
        /\ Len(queue) = 2
        /\ \A i \in DOMAIN queue :
               queue[i].event = "UpdateFont" /\ queue[i].by = "font_handle_changed"
        /\ {queue[i].entity : i \in DOMAIN queue} = {e1, e2}

\* C18: a change of the default size (colour) of a collection marks it for
\* default_font_size_changed (default_font_color_changed), and when that
\* system runs it schedules UpdateFontSize (UpdateFontColor), and no other
\* resolution, for every text of the UsedBy of each changed collection and,
\* if DefaultFont is among them, for every ReactiveFont text without
\* UsingFont.
C18_SizeColorChangeAudience ==
    [][/\ \A c \in Fonts :
            /\ (\E x \in DefaultSizes : SetDefaultFontSize(c, x))
               => c \in changed'.size
            /\ (\E x \in DefaultColors : SetDefaultFontColor(c, x))
               => c \in changed'.color
       /\ default_font_size_changed
          => SchedulesFor("UpdateFontSize", changed.size)
       /\ default_font_color_changed
          => SchedulesFor("UpdateFontColor", changed.color)
      ]_vars

\* default_font_size_changed has just scheduled the size resolution, and that
\* alone, for both audiences of a collection c whose default size was
\* changed: a text that uses c, and a ReactiveFont text without reference
\* while DefaultFont is c.
C18_Witness ==
    \E c \in Fonts, e1, e2 \in Texts :
        /\ changed.size = {} /\ ran = <<>>
        /\ defaultFontSize[c] # Startup(None, TRUE, TRUE).defaultFontSize[c]
        /\ defaultFont = c
        /\ usingFont[e1] = c /\ e1 \in Users(c)
        /\ e2 \in Implicit
        /\ Len(queue) = 2
        /\ \A i \in DOMAIN queue :
               /\ queue[i].event = "UpdateFontSize"
               /\ queue[i].by = "default_font_size_changed"
        /\ {queue[i].entity : i \in DOMAIN queue} = {e1, e2}

\* C19: a step that adds or removes Bold or Italic on a text runs the handle
\* resolution of that text, and leaves the handle selected by the tags as
\* they are after the step: with UsingFont(C), Bold and Italic the bold-italic
\* handle of C, and once Italic is removed the bold handle of C.
C19_TagEditResolvesHandle ==
    [][\A e \in Texts :
        (InsertBold(e) \/ RemoveBold(e) \/ InsertItalic(e) \/ RemoveItalic(e))
        => /\ \E i \in DOMAIN ran' :
                  ran'[i].event = "UpdateFont" /\ ran'[i].entity = e
           /\ Resolvable(World', e) =>
                  /\ textFont'[e] = ExpectedHandle(World', e)
                  /\ (usingFont'[e] # None /\ bold'[e] /\ italic'[e]) =>
                         textFont'[e] = handles'[usingFont'[e]].bold_italic
                  /\ (usingFont'[e] # None /\ bold'[e] /\ RemoveItalic(e)) =>
                         textFont'[e] = handles'[usingFont'[e]].bold
      ]_vars

\* Italic has just been removed from a bold text that uses a collection whose
\* bold and bold-italic handles differ: the text shows the bold handle.
C19_Witness ==
    \E e \in Texts :
        /\ exists[e] /\ hasText[e]
        /\ ran = <<[event |-> "UpdateFont", entity |-> e,
                     by |-> "on_remove_font_tag", outcome |-> "Ok"]>>
        /\ bold[e] /\ ~italic[e]
        /\ usingFont[e] # None
        /\ handles[usingFont[e]].bold # handles[usingFont[e]].bold_italic
        /\ textFont[e] = handles[usingFont[e]].bold

\* The step runs the resolution of event for text e.
Resolves(event, e) ==
    \E i \in DOMAIN ran' : ran'[i].event = event /\ ran'[i].entity = e

\* The step is the queued resolution of event for text e.
ResolveOf(event, e) ==
    /\ queue # <<>>
    /\ Head(queue).event = event /\ Head(queue).entity = e
    /\ Resolve

\* C20: for a text that carries ReactiveFont, adding or removing FontSize
\* (FontColor) runs the size (colour) resolution in the same step, on the
\* state after the edit: the override once added, the default of the
\* effective collection once removed. Changing the value of the override
\* marks the text for changed_font_size (changed_font_color), whose run
\* schedules the size (colour) resolution of every marked ReactiveFont text,
\* and that resolution writes the override the text carries when it runs.
C20_OverrideEdits ==
    [][\A e \in Texts :
        (exists[e] /\ reactive[e]) =>
            /\ (\E x \in OverrideSizes : InsertFontSize(e, x)) =>
                   /\ Resolves("UpdateFontSize", e)
                   /\ Resolvable(World', e) => textSize'[e] = fontSize'[e][1]
            /\ RemoveFontSize(e) =>
                   /\ Resolves("UpdateFontSize", e)
                   /\ Resolvable(World', e) =>
                          textSize'[e] = defaultFontSize'[Effective(World', e)]
            /\ (\E x \in OverrideSizes : SetFontSize(e, x)) =>
                   e \in changed'.fontSize
            /\ (changed_font_size /\ e \in changed.fontSize) =>
                   /\ \E i \in DOMAIN Scheduled : Scheduled[i].entity = e
                   /\ \A i \in DOMAIN Scheduled :
                          Scheduled[i].event = "UpdateFontSize"
            /\ (ResolveOf("UpdateFontSize", e) /\ Resolvable(World, e)) =>
                   textSize'[e] = ExpectedSize(World', e)
            /\ (\E x \in OverrideColors : InsertFontColor(e, x)) =>
                   /\ Resolves("UpdateFontColor", e)
                   /\ Resolvable(World', e) => textColor'[e] = fontColor'[e][1]
            /\ RemoveFontColor(e) =>
                   /\ Resolves("UpdateFontColor", e)
                   /\ Resolvable(World', e) =>
                          textColor'[e] = defaultFontColor'[Effective(World', e)]
            /\ (\E x \in OverrideColors : SetFontColor(e, x)) =>
                   e \in changed'.fontColor
            /\ (changed_font_color /\ e \in changed.fontColor) =>
                   /\ \E i \in DOMAIN Scheduled : Scheduled[i].entity = e
                   /\ \A i \in DOMAIN Scheduled :
                          Scheduled[i].event = "UpdateFontColor"
            /\ (ResolveOf("UpdateFontColor", e) /\ Resolvable(World, e)) =>
                   textColor'[e] = ExpectedColor(World', e)
      ]_vars

\* FontSize has just been removed from a ReactiveFont text: its size
\* resolution ran and the text shows the default size of its collection.
C20_Witness ==
    \E e \in Texts :
        /\ exists[e] /\ reactive[e] /\ Resolvable(World, e)
        /\ ran = <<[event |-> "UpdateFontSize", entity |-> e,
                     by |-> "on_remove_font_size", outcome |-> "Ok"]>>
        /\ fontSize[e] = Absent
        /\ textSize[e] = defaultFontSize[Effective(World, e)]

\* The inputs of the engine: the fields of the collections, UsedBy, the
\* DefaultFont registry, and the overrides, tags and references of the texts.
Inputs ==
    <<handles, defaultFontSize, defaultFontColor, usedBy, fexists,
      isCollection, defaultFont, fontSize, fontColor, bold, italic,
      usingFont, reactive, exists, hasText>>

\* The step is a run of one of the trigger systems.
TriggerSystem ==
    \/ default_font_changed \/ font_handle_changed
    \/ default_font_size_changed \/ default_font_color_changed
    \/ changed_font_size \/ changed_font_color

\* C21: no trigger system and no queued resolution changes an input, a
\* trigger system writes no resolved attribute, and in every step a resolved
\* attribute of a text changes only if the resolution of that attribute ran
\* for that text in the step.
C21_ReaderThenSingleWriter ==
    [][/\ (TriggerSystem \/ Resolve) => Inputs' = Inputs
       /\ TriggerSystem =>
              textFont' = textFont /\ textSize' = textSize
              /\ textColor' = textColor
       /\ \A e \in Texts :
              /\ textFont'[e] # textFont[e] => Resolves("UpdateFont", e)
              /\ textSize'[e] # textSize[e] => Resolves("UpdateFontSize", e)
              /\ textColor'[e] # textColor[e] => Resolves("UpdateFontColor", e)
      ]_vars

\* A queued handle resolution of one text has just written a newly loaded
\* handle; the text keeps a resolved size and colour, and another text is
\* spawned beside it.
C21_Witness ==
    \E e \in Texts :
        /\ Len(ran) = 1
        /\ ran[1].event = "UpdateFont" /\ ran[1].entity = e
        /\ ran[1].by = "font_handle_changed" /\ ran[1].outcome = "Ok"
        /\ textFont[e] \in NewHandles
        /\ textSize[e] \in DefaultSizes /\ textColor[e] \in DefaultColors
        /\ \E o \in Texts \ {e} : exists[o] /\ hasText[o]

\* The entities of a Vec with the number of times each occurs.
Multiset(v) == [x \in VecEntities |-> Cardinality({i \in 1..Len(v) : v[i] = x})]

\* C22: remove(entity) deletes the first element equal to entity and moves
\* the later ones down by one, keeping their order, and returns true; when
\* there is none it returns false and changes nothing. add(entity) puts the
\* entity at the end, whether or not it is already there, and returns true.
C22_AddRemove ==
    [][\A e \in VecEntities :
        /\ VecRemove(e) =>
              IF \E k \in 1..Len(vec) : vec[k] = e
              THEN /\ ret'.value = Some(TRUE)
                   /\ Len(vec') = Len(vec) - 1
                   /\ \E k \in 1..Len(vec) :
                          /\ vec[k] = e
                          /\ \A j \in 1..(k - 1) : vec[j] # e /\ vec'[j] = vec[j]
                          /\ \A j \in k..Len(vec') : vec'[j] = vec[j + 1]
              ELSE ret'.value = Some(FALSE) /\ vec' = vec
        /\ VecAdd(e) =>
              /\ ret'.value = Some(TRUE)
              /\ Len(vec') = Len(vec) + 1
              /\ vec'[Len(vec')] = e
              /\ \A j \in 1..Len(vec) : vec'[j] = vec[j]
      ]_vars

\* remove has just returned true and left two entities that are not in
\* ascending order: they kept the order they were added in.
C22_Witness ==
    /\ ret.op = "remove" /\ ret.value = Some(TRUE)
    /\ len(vec) = 2 /\ Len(ref) = 2
    /\ vec[1] > vec[2]
    /\ Multiset(vec) = Multiset(ref)

\* The Vec v with entity e at its end.
Appended(v, e) == Len(v) + 1 :> e @@ v

\* C23: for every index, in range or not: insert(i, e) and
\* insert_stable(i, e) make the Vec one longer; when i is below the old
\* length e is at index i, the element that was there is at the end (insert)
\* or it and the elements behind it are one further up (insert_stable), and
\* the rest is where it was; otherwise e is at the end. remove_at(i) and
\* remove_at_stable(i) return the element at i and make the Vec one shorter
\* when i is below the length, the last element taking its place (remove_at)
\* or the elements behind it coming one down (remove_at_stable); otherwise
\* they return None and change nothing.
C23_IndexedInsertRemove ==
    [][\A i \in Indices :
        /\ \A e \in VecEntities :
              /\ VecInsert(i, e) =>
                    /\ Len(vec') = Len(vec) + 1
                    /\ IF i < Len(vec)
                       THEN /\ vec'[i + 1] = e
                            /\ vec'[Len(vec')] = vec[i + 1]
                            /\ \A j \in 1..Len(vec) \ {i + 1} : vec'[j] = vec[j]
                       ELSE \A j \in 1..Len(vec') : vec'[j] = Appended(vec, e)[j]
              /\ VecInsertStable(i, e) =>
                    /\ Len(vec') = Len(vec) + 1
                    /\ IF i < Len(vec)
                       THEN /\ vec'[i + 1] = e
                            /\ \A j \in 1..i : vec'[j] = vec[j]
                            /\ \A j \in (i + 1)..Len(vec) : vec'[j + 1] = vec[j]
                       ELSE \A j \in 1..Len(vec') : vec'[j] = Appended(vec, e)[j]
        /\ VecRemoveAt(i) =>
              IF i < Len(vec)
              THEN /\ ret'.value = <<vec[i + 1]>>
                   /\ Len(vec') = Len(vec) - 1
                   /\ i < Len(vec') => vec'[i + 1] = vec[Len(vec)]
                   /\ \A j \in 1..Len(vec') \ {i + 1} : vec'[j] = vec[j]
              ELSE ret'.value = <<>> /\ vec' = vec
        /\ VecRemoveAtStable(i) =>
              IF i < Len(vec)
              THEN /\ ret'.value = <<vec[i + 1]>>
                   /\ Len(vec') = Len(vec) - 1
                   /\ \A j \in 1..i : vec'[j] = vec[j]
                   /\ \A j \in (i + 1)..Len(vec') : vec'[j] = vec[j + 1]
              ELSE ret'.value = <<>> /\ vec' = vec
      ]_vars

\* remove_at has just returned the least of three entities that stood before
\* the greatest: the greatest, which was last, stands in its place.
C23_Witness ==
    /\ ret.op = "remove_at" /\ ret.value # Absent
    /\ len(vec) = 2
    /\ ret.value[1] < vec[2] /\ vec[2] < vec[1]

\* v is in ascending entity order, equal entities allowed.
Ascending(v) == \A i, j \in 1..Len(v) : i < j => v[i] <= v[j]

\* The multiset m with one more copy of entity e.
OneMore(m, e) == [m EXCEPT ![e] = @ + 1]

\* C24: insert_sorted(e) on a Vec in ascending entity order leaves it in
\* ascending order, one longer, holding what it held and one more copy of e,
\* the copies it already held included; sort() leaves any Vec in ascending
\* order holding exactly what it held.
C24_SortedInsertAndSort ==
    [][/\ \A e \in VecEntities :
              (VecInsertSorted(e) /\ Ascending(vec)) =>
                  /\ Ascending(vec')
                  /\ Len(vec') = Len(vec) + 1
                  /\ Multiset(vec') = OneMore(Multiset(vec), e)
       /\ VecSort =>
              /\ Ascending(vec')
              /\ Multiset(vec') = Multiset(vec)
      ]_vars

\* insert_sorted has just left three entities in ascending order, two of them
\* equal and the least one alone in front.
C24_Witness ==
    /\ ret.op = "insert_sorted"
    /\ len(vec) = 3
    /\ vec[1] < vec[2] /\ vec[2] = vec[3]

\* The 1-based position that index i, clamped to the last one, names in v.
Clamped(v, i) == IF i < Len(v) - 1 THEN i + 1 ELSE Len(v)

\* C25: for every index, in range or not: place(e, i) on a Vec that holds e
\* and place_most_recent(i) on a Vec that holds something, e being its last
\* element, leave the length and the multiset of elements as they were and e
\* at index min(i, len - 1); place of an entity the Vec does not hold and
\* place_most_recent on a Vec of length zero change nothing.
C25_Place ==
    [][\A i \in Indices :
        /\ \A e \in VecEntities :
              VecPlace(e, i) =>
                  IF \E k \in 1..Len(vec) : vec[k] = e
                  THEN /\ Len(vec') = Len(vec)
                       /\ Multiset(vec') = Multiset(vec)
                       /\ vec'[Clamped(vec, i)] = e
                  ELSE vec' = vec
        /\ VecPlaceMostRecent(i) =>
              IF Len(vec) > 0
              THEN /\ Len(vec') = Len(vec)
                   /\ Multiset(vec') = Multiset(vec)
                   /\ vec'[Clamped(vec, i)] = vec[Len(vec)]
              ELSE vec' = vec
      ]_vars

\* place has just run on a Vec of three different entities, so on one that
\* held the entity whichever it was, and the Vec is not in ascending order.
C25_Witness ==
    /\ ret.op = "place"
    /\ len(vec) = 3
    /\ \A x \in VecEntities : \E k \in 1..3 : vec[k] = x
    /\ vec[1] > vec[2]

====
